---------------------------- MODULE Spec2Model ----------------------------
(***************************************************************************)
(* Model of the PDF question-answering app: src/app.py (the Streamlit      *)
(* script: folder_signature, the cached build_pipeline, the chat handler)  *)
(* and src/main.py (cargar_documentos, crear_vectorstore).                 *)
(*                                                                         *)
(* A Streamlit script is re-run from top to bottom on every interaction,   *)
(* so one run of app.py is one action (RunScript).  The folder of PDFs is  *)
(* the environment; its changes are the remaining actions of Spec.         *)
(* Path.glob is modelled as on POSIX, where "*.pdf" is case-sensitive.     *)
(***************************************************************************)
EXTENDS Integers, Sequences, FiniteSets, Bags, TLC

VARIABLES
    fs,         \* the file system: folder path -> [exists, files]
    cache,      \* st.cache_resource's entries for build_pipeline
    messages,   \* st.session_state.messages; <<>> while the key is not set
    envKey,     \* whether os.environ holds OPENAI_API_KEY
    builds,     \* log: the executions of build_pipeline's body, a bag
    sigSeen,    \* log: per folder, what folder_signature last returned and saw
    run,        \* what the last script run observed and did
    nRuns,      \* number of script runs so far
    nFsOps,     \* number of file-system changes so far
    vs,         \* crear_vectorstore alone: its arguments and its outcome
    doc         \* source rendering alone: a passage and its caption

vars == <<fs, cache, messages, envKey, builds, sigSeen, run, nRuns, nFsOps, vs, doc>>

appVars == <<fs, cache, messages, envKey, builds, sigSeen, run, nRuns, nFsOps>>

---------------------------------------------------------------------------
(* Bounds of the model *)

\* Script runs plus folder changes in one behaviour
MaxSteps == 4

\* Modification times are 0..MaxTick ticks, TicksPerSecond ticks a second
MaxTick == 2

TicksPerSecond == 2

\* Chunks in a small PDF
SmallDoc == 2

(* Program constants *)

DefaultBatchSize == 64

PreviewLen == 500

---------------------------------------------------------------------------
(* The environment: folders and the files in them *)

\* "data" is the folder the user works in; "docs" holds a copy of its
\* first file and is left alone
Folders == {"data", "docs"}

Workdir == "data"

\* File names, in the order sorted() gives them (code point order)
DirOrder ==
    << [stem |-> "a", ext |-> "pdf"],
       [stem |-> "b", ext |-> "pdf"],
       [stem |-> "c", ext |-> "PDF"] >>

FileNames == {DirOrder[i] : i \in 1..Len(DirOrder)}

Name(n) == n.stem \o "." \o n.ext

\* str.lower() on the extensions that occur
Lower(s) == IF s = "PDF" THEN "pdf" ELSE s

Min(a, b) == IF a <= b THEN a ELSE b

\* A file: its name, its modification time in ticks (a float of seconds in
\* the program) and what it is: "ok" a PDF with pages, "nopages" a PDF
\* with no page, "dangling" a link to nothing (stat() and open() raise)
Kinds == {"ok", "nopages", "dangling"}

FileRec == [name : FileNames, mtime : 0..MaxTick, kind : Kinds]

\* A folder p is [exists, files]
NamesIn(p) == {f.name : f \in p.files}

FileOf(p, n) == CHOOSE f \in p.files : f.name = n

\* Number of chunks the splitter yields for a file with pages (its content)
ChunksOf(n) == IF n.stem = "b" THEN DefaultBatchSize + 1 ELSE SmallDoc

---------------------------------------------------------------------------
(* folder_signature, app.py *)

\* p.glob("*.pdf"): the pattern's match of one name
GlobMatch(n) == n.ext = "pdf"

\* sorted(p.glob("*.pdf"))
SortedGlob(p) ==
    SelectSeq(DirOrder, LAMBDA n : n \in NamesIn(p) /\ GlobMatch(n))

\* int(f.stat().st_mtime)
IntMtime(f) == f.mtime \div TicksPerSecond

SigPart(f) ==
    IF f.kind # "dangling" THEN Name(f.name) \o ":" \o ToString(IntMtime(f))
    ELSE Name(f.name) \o ":0"

RECURSIVE Join(_, _)
Join(sep, parts) ==
    IF Len(parts) = 0 THEN ""
    ELSE IF Len(parts) = 1 THEN parts[1]
    ELSE parts[1] \o sep \o Join(sep, Tail(parts))

FolderSignature(p) ==
    IF ~p.exists THEN "missing"
    ELSE LET g == SortedGlob(p)
             parts == [i \in 1..Len(g) |-> SigPart(FileOf(p, g[i]))]
         IN IF Len(parts) = 0 THEN "empty" ELSE Join("|", parts)

---------------------------------------------------------------------------
(* cargar_documentos and crear_vectorstore, main.py *)

Raised(e) == [ok |-> FALSE, error |-> e, index |-> <<>>, requests |-> <<>>]

\* loader.load() + splitter.split_documents for one file
ChunksOfFile(f) ==
    IF f.kind = "nopages" THEN <<>>
    ELSE [k \in 1..ChunksOf(f.name) |-> [source |-> Name(f.name), k |-> k]]

RECURSIVE LoadAll(_, _)
LoadAll(p, names) ==
    IF Len(names) = 0 THEN <<>>
    ELSE ChunksOfFile(FileOf(p, names[1])) \o LoadAll(p, Tail(names))

\* os.listdir filtered by archivo.lower().endswith(".pdf")
Listed(p) ==
    SelectSeq(DirOrder, LAMBDA n : n \in NamesIn(p) /\ Lower(n.ext) = "pdf")

CargarDocumentos(p) ==
    LET names == Listed(p)
    IN IF \E i \in 1..Len(names) : FileOf(p, names[i]).kind = "dangling"
       THEN Raised("ValueError")
       ELSE LET chunks == LoadAll(p, names)
            IN IF Len(chunks) = 0 THEN Raised("RuntimeError")
               ELSE [ok |-> TRUE, error |-> "", index |-> chunks, requests |-> <<>>]

\* Faulty variant of Slice: the slice's end is one short
SliceShort(documentos, i, batch_size) ==
    SubSeq(documentos, i + 1, Min(i + batch_size - 1, Len(documentos)))

\* documentos[i : i + batch_size], i counted from 0
Slice(documentos, i, batch_size) ==
    SubSeq(documentos, i + 1, Min(i + batch_size, Len(documentos)))

\* The loop of lines 59-61 from offset i on; st is the vectorstore so far.
\* failAt is the ordinal of the embedding request that raises (0: none).
RECURSIVE AddBatches(_, _, _, _, _)
AddBatches(st, documentos, i, batch_size, failAt) ==
    IF i >= Len(documentos) THEN st
    ELSE LET batch == Slice(documentos, i, batch_size)
             reqs == Append(st.requests, batch)
         IN IF Len(reqs) = failAt
            THEN [st EXCEPT !.ok = FALSE, !.error = "EmbeddingError",
                            !.requests = reqs]
            ELSE AddBatches([st EXCEPT !.index = st.index \o batch,
                                       !.requests = reqs],
                            documentos, i + batch_size, batch_size, failAt)

\* The function's run: on a failure the result keeps the local vectorstore
\* as it was at the raise (index <<>> if FAISS.from_documents itself raised)
CrearVectorstoreRun(documentos, batch_size, failAt) ==
    IF Len(documentos) = 0 THEN Raised("ValueError")
    ELSE LET primeros == Slice(documentos, 0, batch_size)
         IN IF failAt = 1
            THEN [ok |-> FALSE, error |-> "EmbeddingError", index |-> <<>>,
                  requests |-> <<primeros>>]
            ELSE AddBatches([ok |-> TRUE, error |-> "", index |-> primeros,
                             requests |-> <<primeros>>],
                            documentos, batch_size, batch_size, failAt)

\* Faulty variant of CrearVectorstore: a failure of a later batch is swallowed and
\* the vectorstore built so far is returned
CrearVectorstorePartial(documentos, batch_size, failAt) ==
    LET r == CrearVectorstoreRun(documentos, batch_size, failAt)
    IN IF r.ok \/ Len(r.index) = 0 THEN [r EXCEPT !.index = IF r.ok THEN @ ELSE <<>>]
       ELSE [r EXCEPT !.ok = TRUE, !.error = ""]

\* What the caller gets: the vectorstore, or the exception and nothing else
CrearVectorstore(documentos, batch_size, failAt) ==
    LET r == CrearVectorstoreRun(documentos, batch_size, failAt)
    IN IF r.ok THEN r ELSE [r EXCEPT !.index = <<>>]

---------------------------------------------------------------------------
(* build_pipeline, app.py: the body the cache wraps *)

BuildPipeline(p, failAt) ==
    IF ~p.exists THEN Raised("FileNotFoundError")
    ELSE IF Len(SortedGlob(p)) = 0 THEN Raised("RuntimeError")
    ELSE LET documentos == CargarDocumentos(p)
         IN IF ~documentos.ok THEN documentos
            ELSE CrearVectorstore(documentos.index, DefaultBatchSize, failAt)

---------------------------------------------------------------------------
(* One run of the script app.py *)

Greeting == [role |-> "assistant", content |-> "Hola, soy Claudia."]

NotSeen == [seen |-> FALSE, sig |-> "", exists |-> FALSE, files |-> {}]

NoRun ==
    [n |-> 0, folder |-> "", rebuild |-> FALSE, sig |-> "", hit |-> FALSE,
     ran |-> 0, ready |-> FALSE, index |-> <<>>, cachedBefore |-> {},
     prev |-> NotSeen, cur |-> NotSeen,
     shown |-> <<>>, prompt |-> "", llm |-> "", stop |-> 0]

Steps == nRuns + nFsOps

Prompts == {"", "q"}

LlmOutcomes == {"raise", "empty", "text"}

CacheKeys == {[signature |-> e.signature, folder |-> e.folder] : e \in cache}

Cached(sig, folder) ==
    CHOOSE e \in cache : e.signature = sig /\ e.folder = folder

\* Lines 116-169: the chat part, reached when build_pipeline returned.
\* Gives the new history and the line of the st.stop() that ended the run
\* (0: the script ran to its end).
Chat(m0, key, prompt, llm) ==
    IF prompt = "" THEN [messages |-> m0, stop |-> 0]
    ELSE IF ~key THEN [messages |-> m0, stop |-> 138]
    ELSE LET m1 == Append(m0, [role |-> "user", content |-> prompt])
         IN IF llm = "raise" THEN [messages |-> m1, stop |-> 152]
            ELSE LET answer == IF llm = "empty" THEN "" ELSE "respuesta"
                 IN [messages |-> Append(m1, [role |-> "assistant",
                                              content |-> answer]),
                     stop |-> 0]

\* Line 105: the signature the cache is asked for
CallSignature(sig0, rebuild) == IF rebuild THEN sig0 \o ":force" ELSE sig0

\* Faulty variant of CacheHit: the function is not cached
CacheHitNever(sig, folder) == FALSE

\* st.cache_resource: whether the call is answered from the cache
CacheHit(sig, folder) ==
    [signature |-> sig, folder |-> folder] \in CacheKeys

\* st.cache_resource: the entries after a call that ran the body with result b
CacheAfter(sig, folder, b) ==
    IF b.ok
    THEN cache \cup {[signature |-> sig, folder |-> folder, pipeline |-> b.index]}
    ELSE cache

RunScript(data_dir, rebuild, apiKeyInput, failAt, prompt, llm) ==
    /\ Steps < MaxSteps
    /\ LET sig0 == FolderSignature(fs[data_dir])
           sig == CallSignature(sig0, rebuild)
           hit == CacheHit(sig, data_dir)
           b == IF hit THEN Raised("") ELSE BuildPipeline(fs[data_dir], failAt)
           ready == hit \/ b.ok
           index == IF hit THEN Cached(sig, data_dir).pipeline ELSE b.index
           key == envKey \/ apiKeyInput
           m0 == IF messages = <<>> THEN <<Greeting>> ELSE messages
           c == IF ready THEN Chat(m0, key, prompt, llm)
                ELSE [messages |-> messages, stop |-> 113]
           cur == [seen |-> TRUE, sig |-> sig0, exists |-> fs[data_dir].exists,
                   files |-> fs[data_dir].files]
       IN /\ envKey' = key
          /\ cache' = IF hit THEN cache ELSE CacheAfter(sig, data_dir, b)
          /\ builds' = IF hit THEN builds
                       ELSE builds (+) SetToBag({
                              [signature |-> sig, folder |-> data_dir,
                               ok |-> b.ok, error |-> b.error,
                               chunks |-> Len(b.index),
                               requests |-> Len(b.requests)]})
          /\ messages' = c.messages
          /\ sigSeen' = [sigSeen EXCEPT ![data_dir] = cur]
          /\ run' = [n |-> nRuns + 1, folder |-> data_dir, rebuild |-> rebuild,
                     sig |-> sig, hit |-> hit,
                     ran |-> BagCardinality(builds') - BagCardinality(builds),
                     ready |-> ready,
                     index |-> IF ready THEN index ELSE <<>>,
                     cachedBefore |-> CacheKeys,
                     prev |-> sigSeen[data_dir], cur |-> cur,
                     shown |-> IF ready THEN m0 ELSE <<>>,
                     prompt |-> prompt, llm |-> llm, stop |-> c.stop]
    /\ nRuns' = nRuns + 1
    /\ UNCHANGED <<fs, nFsOps, vs, doc>>

---------------------------------------------------------------------------
(* The environment's steps: changes of the folders *)

FsStep(folder, exists, files) ==
    /\ Steps < MaxSteps
    /\ fs' = [fs EXCEPT ![folder] = [exists |-> exists, files |-> files]]
    /\ nFsOps' = nFsOps + 1
    /\ UNCHANGED <<cache, messages, envKey, builds, sigSeen, run, nRuns, vs, doc>>

\* A file appears, at tick 0; Touch moves its modification time
AddFile(folder, f) ==
    /\ fs[folder].exists
    /\ f.name \notin NamesIn(fs[folder])
    /\ f.mtime = 0
    /\ FsStep(folder, TRUE, fs[folder].files \cup {f})

RemoveFile(folder, n) ==
    /\ n \in NamesIn(fs[folder])
    /\ FsStep(folder, TRUE, fs[folder].files \ {FileOf(fs[folder], n)})

\* The modification time of a file changes (touch, or a write to it)
Touch(folder, n, t) ==
    /\ n \in NamesIn(fs[folder])
    /\ LET f == FileOf(fs[folder], n)
       IN /\ f.kind # "dangling"
          /\ t # f.mtime
          /\ FsStep(folder, TRUE,
                    (fs[folder].files \ {f}) \cup {[f EXCEPT !.mtime = t]})

RemoveFolder(folder) ==
    /\ fs[folder].exists
    /\ FsStep(folder, FALSE, {})

CreateFolder(folder) ==
    /\ ~fs[folder].exists
    /\ FsStep(folder, TRUE, {})

---------------------------------------------------------------------------
(* crear_vectorstore alone, on every chunk list and batch size in bounds *)

MaxChunks == 4

MaxBatch == 3

ChunkTexts == {"x", "y"}

RECURSIVE SeqsUpTo(_, _)
SeqsUpTo(S, n) ==
    IF n = 0 THEN {<<>>}
    ELSE LET shorter == SeqsUpTo(S, n - 1)
         IN shorter \cup {Append(q, x) : q \in shorter, x \in S}

VsIdle ==
    [documentos |-> <<>>, batch_size |-> 1, failAt |-> 0, called |-> FALSE,
     out |-> Raised("")]

\* vectorstore = crear_vectorstore(documentos, batch_size)
CallCrearVectorstore ==
    /\ ~vs.called
    /\ vs' = [vs EXCEPT !.called = TRUE,
                        !.out = CrearVectorstoreRun(vs.documentos, vs.batch_size,
                                                    vs.failAt)]
    /\ UNCHANGED <<appVars, doc>>

---------------------------------------------------------------------------
(* Lines 155-167 alone: the caption shown for one source passage *)

\* Passages are up to PreviewLen + MaxOver characters long
MaxOver == 2

Ellipsis == "..."

\* The text of n characters used as page_content
Passage(n) == [i \in 1..n |-> IF i % 7 = 0 THEN "b" ELSE "a"]

\* Faulty variant of Caption: the mark is appended from PreviewLen characters on
CaptionMarkAtLimit(page_content) ==
    SubSeq(page_content, 1, Min(PreviewLen, Len(page_content)))
        \o (IF Len(page_content) >= PreviewLen THEN <<Ellipsis>> ELSE <<>>)

\* doc.page_content[:500] + ("…" if len(doc.page_content) > 500 else "")
Caption(page_content) ==
    SubSeq(page_content, 1, Min(PreviewLen, Len(page_content)))
        \o (IF Len(page_content) > PreviewLen THEN <<Ellipsis>> ELSE <<>>)

DocIdle == [page_content |-> <<>>, shown |-> FALSE, caption |-> <<>>]

RenderSource ==
    /\ ~doc.shown
    /\ doc' = [doc EXCEPT !.shown = TRUE, !.caption = Caption(doc.page_content)]
    /\ UNCHANGED <<appVars, vs>>

---------------------------------------------------------------------------
InitApp ==
    /\ fs = [d \in Folders |->
               [exists |-> TRUE,
                files |-> {[name |-> DirOrder[1], mtime |-> 0, kind |-> "ok"]}]]
    /\ cache = {}
    /\ messages = <<>>
    /\ envKey = FALSE
    /\ builds = EmptyBag
    /\ sigSeen = [d \in Folders |-> NotSeen]
    /\ run = NoRun
    /\ nRuns = 0
    /\ nFsOps = 0

Init ==
    /\ InitApp
    /\ vs = VsIdle
    /\ doc = DocIdle

\* Script runs in which no question is asked, and the folder's changes
Next ==
    \/ \E d \in Folders, rebuild \in BOOLEAN, failAt \in 0..2 :
          RunScript(d, rebuild, TRUE, failAt, "", "text")
    \/ \E f \in FileRec : AddFile(Workdir, f)
    \/ \E n \in FileNames : RemoveFile(Workdir, n)
    \/ \E n \in FileNames, t \in 0..MaxTick : Touch(Workdir, n, t)
    \/ RemoveFolder(Workdir)
    \/ CreateFolder(Workdir)

Spec == Init /\ [][Next]_vars

\* Script runs with questions, on folders that do not change
NextChat ==
    \E rebuild \in BOOLEAN, k \in BOOLEAN, failAt \in 0..1,
       q \in Prompts, llm \in LlmOutcomes :
       /\ q = "" => llm = "text"
       /\ RunScript(Workdir, rebuild, k, failAt, q, llm)

SpecChat == Init /\ [][NextChat]_vars

\* crear_vectorstore on each input in bounds
InitVS ==
    /\ InitApp
    /\ vs \in {[VsIdle EXCEPT !.documentos = d, !.batch_size = b, !.failAt = f] :
                 d \in SeqsUpTo(ChunkTexts, MaxChunks), b \in 1..MaxBatch,
                 f \in 0..MaxChunks}
    /\ doc = DocIdle

NextVS == CallCrearVectorstore

SpecVS == InitVS /\ [][NextVS]_vars

\* The caption of each passage in bounds
InitDoc ==
    /\ InitApp
    /\ vs = VsIdle
    /\ doc \in {[DocIdle EXCEPT !.page_content = Passage(n)] :
                  n \in 0..(PreviewLen + MaxOver)}

NextDoc == RenderSource

SpecDoc == InitDoc /\ [][NextDoc]_vars

---------------------------------------------------------------------------
(* Properties *)

RunKey == [signature |-> run.sig, folder |-> run.folder]

BuildLog == BagToSet(builds)

RECURSIVE SumCopies(_)
SumCopies(S) ==
    IF S = {} THEN 0
    ELSE LET b == CHOOSE x \in S : TRUE
         IN CopiesIn(b, builds) + SumCopies(S \ {b})

\* Number of successful executions of build_pipeline's body for a key
OkBuilds(sig, folder) ==
    SumCopies({b \in BuildLog : b.ok /\ b.signature = sig /\ b.folder = folder})

\* C1, as stated: a call whose signature was built successfully before (for
\* whatever folder argument) is answered without running the build again.
C1_SameSignatureBuildsOnce ==
    (run.n > 0 /\ \E k \in run.cachedBefore : k.signature = run.sig)
        => run.ran = 0

\* C1, amended: a call whose signature and folder argument were built
\* successfully before runs no build step and returns the pipeline built
\* then; no (signature, folder) pair is ever built successfully twice.
C1_SameSignatureAndFolderBuildsOnce ==
    /\ (run.n > 0 /\ RunKey \in run.cachedBefore)
          => /\ run.hit /\ run.ran = 0 /\ run.ready
             /\ run.index = Cached(run.sig, run.folder).pipeline
    /\ \A b \in BuildLog : b.ok => OkBuilds(b.signature, b.folder) = 1
    /\ \A k \in CacheKeys : OkBuilds(k.signature, k.folder) = 1

C1_Witness ==
    /\ run.n >= 2 /\ RunKey \in run.cachedBefore /\ run.hit
    /\ OkBuilds(run.sig, run.folder) = 1

\* Every state a folder can be in, and the signatures folder_signature gives
AllFolderStates ==
    {[exists |-> FALSE, files |-> {}]} \cup
    {[exists |-> TRUE, files |-> F] :
        F \in UNION {{ {[name |-> n, mtime |-> g[n][1], kind |-> g[n][2]] : n \in S} :
                         g \in [S -> (0..MaxTick) \X Kinds]} :
                     S \in SUBSET FileNames}}

NaturalSignatures == {FolderSignature(p) : p \in AllFolderStates}

\* C2: a run with the rebuild button pressed asks the cache for a signature
\* no folder state produces, misses the cache and runs a fresh build.
C2_ForceRebuildAlwaysBuilds ==
    (run.n > 0 /\ run.rebuild)
        => /\ run.sig \notin NaturalSignatures
           /\ ~run.hit
           /\ run.ran = 1

\* The folder holds the same files as at the previous signature, and some
\* file the signature scans has another modification time
MtimeChanged(before, after) ==
    /\ before.exists /\ after.exists
    /\ NamesIn(before) = NamesIn(after)
    /\ \A n \in NamesIn(before) : FileOf(before, n).kind = FileOf(after, n).kind
    /\ \E n \in NamesIn(before) :
          /\ GlobMatch(n) /\ FileOf(before, n).kind # "dangling"
          /\ FileOf(before, n).mtime # FileOf(after, n).mtime

\* C3: when the modification time of a PDF changed since folder_signature
\* was last computed for the folder, the new signature differs from the old.
C3_MtimeChangeChangesSignature ==
    (run.n > 0 /\ run.prev.seen /\ MtimeChanged(run.prev, run.cur))
        => run.cur.sig # run.prev.sig

\* The folder gained exactly one file, a PDF by the loader's test
OnePdfAdded(before, after) ==
    /\ before.exists /\ after.exists
    /\ before.files \subseteq after.files
    /\ \E f \in after.files :
          /\ after.files \ before.files = {f}
          /\ f.name \notin NamesIn(before)
          /\ Lower(f.name.ext) = "pdf" /\ f.kind = "ok"

\* C4: when a pipeline is cached for the folder's previous signature and
\* one PDF was added since, the signature differs, the call rebuilds, and
\* the new index holds more chunks than the cached one.
C4_AddedPdfRebuilds ==
    (/\ run.n > 0 /\ ~run.rebuild /\ run.prev.seen
     /\ [signature |-> run.prev.sig, folder |-> run.folder] \in run.cachedBefore
     /\ OnePdfAdded(run.prev, run.cur))
        => /\ run.cur.sig # run.prev.sig
           /\ run.ran = 1
           /\ run.ready =>
                Len(run.index) > Len(Cached(run.prev.sig, run.folder).pipeline)

IsPdf(n) == Lower(n.ext) = "pdf"

\* C9: folder_signature gives "missing" for a folder that does not exist,
\* "empty" for a folder without a PDF, and neither of them for a folder
\* that holds a PDF.
C9_SentinelsOnlyWithoutPdf ==
    run.n > 0 =>
        /\ ~run.cur.exists => run.cur.sig = "missing"
        /\ (run.cur.exists /\ ~\E n \in NamesIn(run.cur) : IsPdf(n))
              => run.cur.sig = "empty"
        /\ (run.cur.exists /\ \E n \in NamesIn(run.cur) : IsPdf(n))
              => run.cur.sig \notin {"missing", "empty"}

\* C6: when the chain call raised or the model returned no text, the
\* history is what it was when the question was submitted.
C6_FailedAnswerAppendsNothing ==
    (/\ run.n > 0 /\ run.ready /\ run.prompt # ""
     /\ \/ run.stop = 152
        \/ run.stop = 0 /\ run.llm = "empty")
        => messages = run.shown

RECURSIVE Flatten(_)
Flatten(batches) ==
    IF Len(batches) = 0 THEN <<>> ELSE batches[1] \o Flatten(Tail(batches))

\* Number of groups of at most b that n chunks make
Groups(n, b) == (n + b - 1) \div b

\* C7: for a non-empty chunk list, the embedding requests are consecutive
\* groups of the list, in order, each of batch_size chunks but possibly the
\* last of a complete run; the index holds the chunks of the requests that
\* succeeded, in order, and is never empty once the first succeeded; a run
\* without a failing request indexes every chunk once, in input order.
C7_BatchesPartitionInOrder ==
    (vs.called /\ Len(vs.documentos) > 0) =>
        LET out == vs.out
            reqs == out.requests
            n == Len(vs.documentos)
            total == Groups(n, vs.batch_size)
            failed == vs.failAt \in 1..total
        IN /\ out.ok = ~failed
           /\ Len(reqs) = IF failed THEN vs.failAt ELSE total
           /\ \A i \in 1..Len(reqs) :
                 reqs[i] = SubSeq(vs.documentos, (i - 1) * vs.batch_size + 1,
                                  Min(i * vs.batch_size, n))
           /\ \A i \in 1..Len(reqs) : Len(reqs[i]) \in 1..vs.batch_size
           /\ out.index = Flatten(SubSeq(reqs, 1, IF failed THEN Len(reqs) - 1
                                                    ELSE Len(reqs)))
           /\ (out.ok \/ vs.failAt > 1) => Len(out.index) > 0
           /\ out.ok => /\ out.index = vs.documentos
                        /\ \A i \in 1..n : out.index[i] = vs.documentos[i]

\* A complete run of several requests whose last group is a short one
C7_Witness ==
    /\ vs.called /\ vs.out.ok
    /\ Len(vs.out.requests) >= 2
    /\ Len(vs.out.requests[Len(vs.out.requests)]) < vs.batch_size
    /\ vs.out.index = vs.documentos

\* C10: the caption of a shown passage is the passage itself when it has at
\* most PreviewLen characters, and otherwise its first PreviewLen characters
\* followed by the truncation mark; the mark is there exactly when the
\* passage is longer than PreviewLen.
C10_CaptionIsBoundedPreview ==
    doc.shown =>
        LET n == Len(doc.page_content)
            c == doc.caption
        IN /\ n <= PreviewLen => c = doc.page_content
           /\ n > PreviewLen =>
                 /\ Len(c) = PreviewLen + 1
                 /\ \A i \in 1..PreviewLen : c[i] = doc.page_content[i]
                 /\ c[PreviewLen + 1] = Ellipsis
           /\ (\E i \in 1..Len(c) : c[i] = Ellipsis) <=> n > PreviewLen

C10_Witness ==
    /\ doc.shown
    /\ Len(doc.page_content) > PreviewLen
    /\ Len(doc.caption) = PreviewLen + 1
=============================================================================
